---- MODULE Spec2Model ----
(***************************************************************************)
(* Model of Scripts/massrun_TALYS.py: main() looks up the selected         *)
(* reaction, make_dir() names and creates the run directory, make_input()  *)
(* writes the TALYS input file.  One behaviour is a sequence of            *)
(* invocations of the script with the same tables and arguments against    *)
(* one run root, whose contents persist between the invocations.           *)
(*                                                                         *)
(* Text is modelled as follows.  Directory names and paths are strings.    *)
(* A line of the input file is the tuple of its space-separated tokens,    *)
(* each token a string.  A number of the tables is an integer count of     *)
(* 1/Scale, so that the three-decimal formatting of a mass excess rounds.  *)
(* A string cell of the nuclide table is the sequence of its characters,   *)
(* which the numeric conversions parse.                                    *)
(***************************************************************************)
EXTENDS Integers, Sequences, FiniteSets, TLC

VARIABLES
    nucl_info,      \* Sheet1 rows: [Ydin, Z, A, MEJYFL], in table order
    reactions,      \* Sheet2 rows: [Target, Projectile], in table order
    args,           \* argparse result: [ldmodel, strength, massmodel]
    today,          \* what dt.datetime.now() returns: [day, month, year]
    root_writable,  \* may entries be created directly under RUNS_PATH
    fs,             \* entries under RUNS_PATH: path -> directory or file
    fs0,            \* fs when the current invocation started
    pc,             \* position in main(): main, make_dir, make_input, done, failed
    target,         \* main()'s local target
    projectile,     \* main()'s local projectile
    run_dir,        \* value returned by make_dir()
    mkdir_result,   \* what make_dir() reported about the creation attempt
    open_mode,      \* mode of the open() that succeeded in make_input()
    err,            \* uncaught exception type that ended the invocation
    err_at,         \* function whose statement raised it
    exit_code,      \* exit status of the process
    last_output     \* input file left by the previous invocation, if it opened it

vars == <<nucl_info, reactions, args, today, root_writable, fs, fs0, pc, target,
          projectile, run_dir, mkdir_result, open_mode, err, err_at, exit_code,
          last_output>>

(***************************************************************************)
(* Bounds of the model.                                                    *)
(***************************************************************************)
MaxRows == 2
MaxReactions == 1

None == "none"
Scale == 10 ^ 4

(***************************************************************************)
(* Cells of the nuclide table as pandas delivers them from the sheet.      *)
(***************************************************************************)
IntCell(n) == [t |-> "int", v |-> n]
FloatCell(x) == [t |-> "float", v |-> x]
NaNCell == [t |-> "nan"]
StrCell(chars) == [t |-> "str", s |-> chars]

NotAvailable == StrCell(<<"N", "/", "A">>)
InfText == StrCell(<<"i", "n", "f">>)

NuclideRows ==
    { [Ydin |-> "56Ni", Z |-> IntCell(28), A |-> IntCell(56), MEJYFL |-> FloatCell(-539000)],
      [Ydin |-> "56Ni", Z |-> StrCell(<<"2", "9">>), A |-> IntCell(57), MEJYFL |-> FloatCell(12346)],
      [Ydin |-> "56Ni", Z |-> NotAvailable, A |-> IntCell(56), MEJYFL |-> FloatCell(-539000)],
      [Ydin |-> "56Ni", Z |-> IntCell(28), A |-> NaNCell, MEJYFL |-> FloatCell(-539000)],
      [Ydin |-> "56Ni", Z |-> IntCell(28), A |-> IntCell(56), MEJYFL |-> NotAvailable],
      [Ydin |-> "57Cu", Z |-> IntCell(29), A |-> IntCell(57), MEJYFL |-> FloatCell(-4)],
      [Ydin |-> "57Cu", Z |-> IntCell(29), A |-> IntCell(57), MEJYFL |-> NaNCell],
      [Ydin |-> "57Cu", Z |-> InfText, A |-> IntCell(57), MEJYFL |-> FloatCell(-4)] }

ReactionRows ==
    { [Target |-> "56Ni", Projectile |-> "p"],
      [Target |-> "57Cu", Projectile |-> "p"],
      [Target |-> "56Ni", Projectile |-> "a"] }

Tables(rows, n) == UNION { [1..k -> rows] : k \in 0..n }

Dates ==
    { [day |-> 31, month |-> 12, year |-> 2025],
      [day |-> 9, month |-> 3, year |-> 2005] }

\* build_parser(): the defaults of --ldmodel, --strength, --massmodel
build_parser == [ldmodel |-> 5, strength |-> 8, massmodel |-> 2]

\* parser.parse_args(): the defaults, or values given on the command line
parse_args == { build_parser, [ldmodel |-> 12, strength |-> 3, massmodel |-> 10] }

(***************************************************************************)
(* make_dir(): the name.                                                   *)
(***************************************************************************)
\* %d, %m, %y of strftime: two decimal digits, zero-padded
TwoDigits(n) == ToString((n \div 10) % 10) \o ToString(n % 10)

\* strftime with "%-d%-m%y"-like fields that are not padded
strftime_unpadded(d) ==
    ToString(d.day) \o ToString(d.month) \o ToString(d.year % 100)

strftime(d) == TwoDigits(d.day) \o TwoDigits(d.month) \o TwoDigits(d.year % 100)

directory_name(d, proj, targ, l, s, m) ==
    "Run-" \o strftime(d) \o "_" \o proj \o targ \o "-"
           \o ToString(l) \o ToString(s) \o ToString(m)

\* input_path of make_input(), relative to RUNS_PATH
input_path(name) == name \o "/" \o name \o "_input.txt"

(***************************************************************************)
(* The file system under RUNS_PATH.                                        *)
(***************************************************************************)
Dir(w) == [kind |-> "dir", writable |-> w]
File(lines) == [kind |-> "file", content |-> lines]

Exists(f, p) == p \in DOMAIN f
Put(f, p, e) == [q \in DOMAIN f \cup {p} |-> IF q = p THEN e ELSE f[q]]

\* Path.mkdir(parents=True, exist_ok=False) on RUNS_PATH/name: the outcomes
\* the operating system can produce in file system f
mkdir_outcomes(f, rw, name) ==
    IF Exists(f, name) THEN {"FileExistsError"}
    ELSE IF ~rw THEN {"PermissionError"}
    ELSE {"ok", "OSError"}

\* make_dir() with the PermissionError clause re-raising
mkdir_handler_reraise_permission(outcome) ==
    CASE outcome = "ok" -> [report |-> "created", raised |-> None]
      [] outcome = "FileExistsError" -> [report |-> "exists", raised |-> None]
      [] outcome = "PermissionError" ->
            [report |-> "permission", raised |-> "PermissionError"]
      [] OTHER -> [report |-> "error", raised |-> None]

\* make_dir() without the final "except Exception" clause
mkdir_handler_uncaught_other(outcome) ==
    CASE outcome = "ok" -> [report |-> "created", raised |-> None]
      [] outcome = "FileExistsError" -> [report |-> "exists", raised |-> None]
      [] outcome = "PermissionError" -> [report |-> "permission", raised |-> None]
      [] OTHER -> [report |-> "error", raised |-> outcome]

\* the try/except of make_dir(): what is printed for an outcome, and the
\* exception that leaves make_dir(), if any
mkdir_handler(outcome) ==
    CASE outcome = "ok" -> [report |-> "created", raised |-> None]
      [] outcome = "FileExistsError" -> [report |-> "exists", raised |-> None]
      [] outcome = "PermissionError" -> [report |-> "permission", raised |-> None]
      [] OTHER -> [report |-> "error", raised |-> None]

\* make_dir() that replaces an existing directory by an empty one
make_dir_recreate(f, rw, d, proj, targ, a, outcome) ==
    LET name == directory_name(d, proj, targ, a.ldmodel, a.strength, a.massmodel)
        h == mkdir_handler(outcome)
        inside == {name \o "/output", input_path(name)}
    IN  [name |-> name,
         report |-> h.report,
         raised |-> h.raised,
         fs |-> IF outcome = "ok" THEN Put(f, name, Dir(TRUE))
                ELSE IF outcome = "FileExistsError"
                THEN [q \in DOMAIN f \ inside |-> f[q]]
                ELSE f]

make_dir(f, rw, d, proj, targ, a, outcome) ==
    LET name == directory_name(d, proj, targ, a.ldmodel, a.strength, a.massmodel)
        h == mkdir_handler(outcome)
    IN  [name |-> name,
         report |-> h.report,
         raised |-> h.raised,
         fs |-> IF outcome = "ok" THEN Put(f, name, Dir(TRUE)) ELSE f]

(***************************************************************************)
(* Numeric conversions.                                                    *)
(***************************************************************************)
IsDigit(c) == c \in {"0", "1", "2", "3", "4", "5", "6", "7", "8", "9"}

DigitValue(c) ==
    CASE c = "0" -> 0 [] c = "1" -> 1 [] c = "2" -> 2 [] c = "3" -> 3
      [] c = "4" -> 4 [] c = "5" -> 5 [] c = "6" -> 6 [] c = "7" -> 7
      [] c = "8" -> 8 [] c = "9" -> 9

IsIntegerText(chars) == Len(chars) > 0 /\ \A i \in 1..Len(chars) : IsDigit(chars[i])

RECURSIVE IntegerTextValue(_)
IntegerTextValue(chars) ==
    IF chars = <<>> THEN 0
    ELSE 10 * IntegerTextValue(SubSeq(chars, 1, Len(chars) - 1))
         + DigitValue(chars[Len(chars)])

\* truncation toward zero of a number counted in 1/Scale
Truncate(x) == IF x >= 0 THEN x \div Scale ELSE -((-x) \div Scale)

NaN == [k |-> "nan"]
Inf == [k |-> "inf"]
Num(x) == [k |-> "num", v |-> x]

\* pd.to_numeric(column, errors="coerce") on one cell
to_numeric(c) ==
    CASE c.t = "int" -> Num(c.v * Scale)
      [] c.t = "float" -> Num(c.v)
      [] c.t = "nan" -> NaN
      [] c.t = "str" ->
            IF IsIntegerText(c.s) THEN Num(IntegerTextValue(c.s) * Scale)
            ELSE IF c.s = <<"i", "n", "f">> THEN Inf
            ELSE NaN

\* a conversion of the looked-up cell that coerces instead of raising
int_of_cell_lenient(c) ==
    CASE c.t = "int" -> [ok |-> TRUE, v |-> c.v, err |-> None]
      [] c.t = "float" -> [ok |-> TRUE, v |-> Truncate(c.v), err |-> None]
      [] c.t = "nan" -> [ok |-> TRUE, v |-> 0, err |-> None]
      [] c.t = "str" ->
            [ok |-> TRUE,
             v |-> IF IsIntegerText(c.s) THEN IntegerTextValue(c.s) ELSE 0,
             err |-> None]

\* int(row["Z"]), int(row["A"]) on a cell of the looked-up row
int_of_cell(c) ==
    CASE c.t = "int" -> [ok |-> TRUE, v |-> c.v, err |-> None]
      [] c.t = "float" -> [ok |-> TRUE, v |-> Truncate(c.v), err |-> None]
      [] c.t = "nan" -> [ok |-> FALSE, v |-> 0, err |-> "ValueError"]
      [] c.t = "str" ->
            IF IsIntegerText(c.s)
            THEN [ok |-> TRUE, v |-> IntegerTextValue(c.s), err |-> None]
            ELSE [ok |-> FALSE, v |-> 0, err |-> "ValueError"]

\* int(Z), int(A) on a coerced value that dropna kept
int_of_number(x) ==
    IF x.k = "num" THEN [ok |-> TRUE, v |-> Truncate(x.v), err |-> None]
    ELSE [ok |-> FALSE, v |-> 0, err |-> "OverflowError"]

\* f"{float(ME):.3f}": sign, integer part, point, three decimals, the
\* magnitude rounded to the nearest 1/1000
format_3f(x) ==
    LET mag == IF x < 0 THEN -x ELSE x
        thousandths == (mag * 1000 + Scale \div 2) \div Scale
        frac == thousandths % 1000
    IN  (IF x < 0 THEN "-" ELSE "") \o ToString(thousandths \div 1000) \o "."
        \o ToString(frac \div 100) \o ToString((frac \div 10) % 10)
        \o ToString(frac % 10)

(***************************************************************************)
(* make_input().                                                           *)
(***************************************************************************)
\* assign() with ME_num coerced from the A column
assign_numeric_wrong_column(rows) ==
    [i \in 1..Len(rows) |->
        [Z_num |-> to_numeric(rows[i].Z),
         A_num |-> to_numeric(rows[i].A),
         ME_num |-> to_numeric(rows[i].A)]]

\* nucl_info.assign(Z_num=..., A_num=..., ME_num=...)
assign_numeric(rows) ==
    [i \in 1..Len(rows) |->
        [Z_num |-> to_numeric(rows[i].Z),
         A_num |-> to_numeric(rows[i].A),
         ME_num |-> to_numeric(rows[i].MEJYFL)]]

\* .dropna(subset=["Z_num", "A_num", "ME_num"])
KeepsRow(r) == r.Z_num # NaN /\ r.A_num # NaN /\ r.ME_num # NaN

dropna(rows) == SelectSeq(rows, KeepsRow)

\* a lookup that does not filter by the target
loc_unfiltered(rows, targ) == 1..Len(rows)

\* nucl_info.loc[nucl_info["Ydin"] == target]: positions of the matches
loc(rows, targ) == { i \in 1..Len(rows) : rows[i].Ydin = targ }

\* .iloc[-1]: the last of them
iloc_last(matches) == CHOOSE i \in matches : \A j \in matches : i >= j

\* .iloc[0]: the first of them
iloc0(matches) == CHOOSE i \in matches : \A j \in matches : i <= j

\* the sixteen f.write calls that precede the loop of write_input()
header_lines(proj, Z_target, A_target, a) ==
    << <<"energy", "0.1">>,
       <<"projectile", proj>>,
       <<"element", ToString(Z_target)>>,
       <<"mass", ToString(A_target)>>,
       <<"ldmodel", ToString(a.ldmodel)>>,
       <<"strength", ToString(a.strength)>>,
       <<"massmodel", ToString(a.massmodel)>>,
       <<"astro", "y">>,
       <<"transeps", "1e-25">>,
       <<"xseps", "1e-25">>,
       <<"popeps", "1e-25">>,
       <<"gnorm", "y">>,
       <<"outlevels", "y">>,
       <<"outdensity", "y">>,
       <<"outgamma", "y">>,
       <<"expmass", "y">> >>

massexcess_line(r) ==
    <<"massexcess", ToString(int_of_number(r.Z_num).v),
      ToString(int_of_number(r.A_num).v), format_3f(r.ME_num.v)>>

Writable(r) == int_of_number(r.Z_num).ok /\ int_of_number(r.A_num).ok

\* the loop of write_input(): the lines written until a row raises
RECURSIVE massexcess_loop(_)
massexcess_loop(df_me) ==
    IF df_me = <<>> THEN [lines |-> <<>>, err |-> None]
    ELSE IF ~Writable(Head(df_me)) THEN [lines |-> <<>>, err |-> "OverflowError"]
    ELSE LET rest == massexcess_loop(Tail(df_me))
         IN  [lines |-> <<massexcess_line(Head(df_me))>> \o rest.lines,
              err |-> rest.err]

write_input(proj, Z_target, A_target, a, df_me) ==
    LET body == massexcess_loop(df_me)
    IN  [lines |-> header_lines(proj, Z_target, A_target, a) \o body.lines,
         err |-> body.err]

\* open(input_path, "a"): the old content stays
truncate_keep(old) == old

\* what open(input_path, "w") leaves of the old content before the writes
truncate(old) == <<>>

\* try: open(input_path, "x") / except FileExistsError: open(input_path, "w")
open_input(f, name) ==
    LET p == input_path(name)
    IN  IF ~Exists(f, name) \/ f[name].kind # "dir"
        THEN [mode |-> None, err |-> "FileNotFoundError", old |-> <<>>]
        ELSE IF Exists(f, p)
        THEN [mode |-> "w", err |-> None, old |-> truncate(f[p].content)]
        ELSE IF ~f[name].writable
        THEN [mode |-> None, err |-> "PermissionError", old |-> <<>>]
        ELSE [mode |-> "x", err |-> None, old |-> <<>>]

Raise(f, e) == [fs |-> f, mode |-> None, err |-> e]

make_input(f, rows, reacts, process, a, name) ==
    IF process + 1 \notin DOMAIN reacts THEN Raise(f, "KeyError")
    ELSE
    LET targ == reacts[process + 1].Target
        proj == reacts[process + 1].Projectile
        matches == loc(rows, targ)
    IN  IF matches = {} THEN Raise(f, "IndexError")
        ELSE
        LET row == rows[iloc0(matches)]
            Z_target == int_of_cell(row.Z)
            A_target == int_of_cell(row.A)
        IN  IF ~Z_target.ok THEN Raise(f, Z_target.err)
            ELSE IF ~A_target.ok THEN Raise(f, A_target.err)
            ELSE
            LET df_me == dropna(assign_numeric(rows))
                opened == open_input(f, name)
                written == write_input(proj, Z_target.v, A_target.v, a, df_me)
            IN  IF opened.err # None THEN Raise(f, opened.err)
                ELSE [fs |-> Put(f, input_path(name), File(opened.old \o written.lines)),
                      mode |-> opened.mode,
                      err |-> written.err]

(***************************************************************************)
(* The states the script can be started in.                                *)
(***************************************************************************)
\* the reaction main() selects: process = 0
process == 0

StaleLines(n) == [i \in 1..n |-> <<"stale", ToString(i)>>]

\* What a run root can hold before an invocation: always the directory and
\* input file of an unrelated earlier run; of the run directory `name`
\* either nothing, or the directory with an output file of an earlier run
\* and possibly an input file, shorter or longer than any this run writes.
OtherRun == [p \in {"Run-old", input_path("Run-old")} |->
                IF p = "Run-old" THEN Dir(TRUE) ELSE File(StaleLines(1))]

WithRunDir(name, w) == Put(Put(OtherRun, name, Dir(w)),
                           name \o "/output", File(StaleLines(2)))

InitialFileSystems(name) ==
    { [rw |-> TRUE, fs |-> OtherRun],
      [rw |-> FALSE, fs |-> OtherRun],
      [rw |-> TRUE, fs |-> WithRunDir(name, TRUE)],
      [rw |-> TRUE, fs |-> WithRunDir(name, FALSE)],
      [rw |-> TRUE, fs |-> Put(WithRunDir(name, TRUE), input_path(name),
                               File(StaleLines(1)))],
      [rw |-> FALSE, fs |-> Put(WithRunDir(name, TRUE), input_path(name),
                                File(StaleLines(16 + MaxRows + 1)))] }

\* the name an invocation with these tables and arguments will compute
NameFor(d, reacts, a) ==
    IF process + 1 \in DOMAIN reacts
    THEN directory_name(d, reacts[process + 1].Projectile,
                        reacts[process + 1].Target,
                        a.ldmodel, a.strength, a.massmodel)
    ELSE "Run-none"

Started(rows, reacts, a, d, env) ==
    /\ nucl_info = rows
    /\ reactions = reacts
    /\ args = a
    /\ today = d
    /\ root_writable = env.rw
    /\ fs = env.fs
    /\ fs0 = env.fs
    /\ pc = "main"
    /\ target = ""
    /\ projectile = ""
    /\ run_dir = ""
    /\ mkdir_result = None
    /\ open_mode = None
    /\ err = None
    /\ err_at = None
    /\ exit_code = <<>>
    /\ last_output = <<>>

Init ==
    \E rows \in Tables(NuclideRows, MaxRows), reacts \in Tables(ReactionRows, MaxReactions),
       a \in parse_args, d \in Dates :
        \E env \in InitialFileSystems(NameFor(d, reacts, a)) :
            Started(rows, reacts, a, d, env)

(***************************************************************************)
(* main().                                                                 *)
(***************************************************************************)
Fail(e, where) ==
    /\ pc' = "failed"
    /\ err' = e
    /\ err_at' = where
    /\ exit_code' = <<1>>

\* a main() that leaves the lookup of the reaction to make_input()
MainLookup_Deferred ==
    /\ pc = "main"
    /\ pc' = "make_dir"
    /\ UNCHANGED <<nucl_info, reactions, args, today, root_writable, fs, fs0,
                   target, projectile, run_dir, mkdir_result, open_mode, err,
                   err_at, exit_code, last_output>>

\* parse_data() has returned; target = reactions["Target"][process] and
\* projectile = reactions["Projectile"][process]
MainLookup ==
    /\ pc = "main"
    /\ IF process + 1 \in DOMAIN reactions
       THEN /\ target' = reactions[process + 1].Target
            /\ projectile' = reactions[process + 1].Projectile
            /\ pc' = "make_dir"
            /\ UNCHANGED <<err, err_at, exit_code>>
       ELSE /\ Fail("KeyError", "main")
            /\ UNCHANGED <<target, projectile>>
    /\ UNCHANGED <<nucl_info, reactions, args, today, root_writable, fs, fs0,
                   run_dir, mkdir_result, open_mode, last_output>>

\* run_dir = make_dir(projectile, target, ldmodel, strength, massmodel, RUNS_PATH)
MakeDir ==
    /\ pc = "make_dir"
    /\ \E outcome \in mkdir_outcomes(fs, root_writable,
                        make_dir(fs, root_writable, today, projectile, target,
                                 args, "ok").name) :
        LET r == make_dir(fs, root_writable, today, projectile, target, args, outcome)
        IN  /\ fs' = r.fs
            /\ mkdir_result' = r.report
            /\ IF r.raised = None
               THEN /\ run_dir' = r.name
                    /\ pc' = "make_input"
                    /\ UNCHANGED <<err, err_at, exit_code>>
               ELSE /\ Fail(r.raised, "make_dir")
                    /\ UNCHANGED run_dir
    /\ UNCHANGED <<nucl_info, reactions, args, today, root_writable, fs0, target,
                   projectile, open_mode, last_output>>

\* make_input(nucl_info, reactions, process, ldmodel, strength, massmodel,
\*            RUNS_PATH, run_dir), then the return of main()
MakeInput ==
    /\ pc = "make_input"
    /\ LET r == make_input(fs, nucl_info, reactions, process, args, run_dir)
       IN  /\ fs' = r.fs
           /\ open_mode' = r.mode
           /\ IF r.err = None
              THEN /\ pc' = "done"
                   /\ exit_code' = <<0>>
                   /\ UNCHANGED <<err, err_at>>
              ELSE Fail(r.err, "make_input")
    /\ UNCHANGED <<nucl_info, reactions, args, today, root_writable, fs0, target,
                   projectile, run_dir, mkdir_result, last_output>>

\* the script is started again with the same arguments on the same run root
Rerun ==
    /\ pc \in {"done", "failed"}
    /\ pc' = "main"
    /\ fs0' = fs
    /\ last_output' = IF open_mode # None
                      THEN <<fs[input_path(run_dir)].content>> ELSE <<>>
    /\ target' = ""
    /\ projectile' = ""
    /\ run_dir' = ""
    /\ mkdir_result' = None
    /\ open_mode' = None
    /\ err' = None
    /\ err_at' = None
    /\ exit_code' = <<>>
    /\ UNCHANGED <<nucl_info, reactions, args, today, root_writable, fs>>

Next == MainLookup \/ MakeDir \/ MakeInput \/ Rerun

Spec == Init /\ [][Next]_vars

(***************************************************************************)
(* Vocabulary of the properties, stated on the tables and the file system  *)
(* without the operators of make_dir() and make_input().                   *)
(***************************************************************************)
Finished == pc \in {"done", "failed"}

RunDirPath == run_dir
InputPath == run_dir \o "/" \o run_dir \o "_input.txt"
InputContent == fs[InputPath].content

Pad2(n) == IF n < 10 THEN "0" \o ToString(n) ELSE ToString(n)
DDMMYY == Pad2(today.day) \o Pad2(today.month) \o Pad2(today.year % 100)
Parameters == ToString(args.ldmodel) \o ToString(args.strength) \o ToString(args.massmodel)

ValidIndex == process < Len(reactions)
Selected == reactions[process + 1]

NumericCell(c) == c.t \in {"int", "float"} \/ (c.t = "str" /\ to_numeric(c) # NaN)
NumericRow(i) == /\ NumericCell(nucl_info[i].Z)
                 /\ NumericCell(nucl_info[i].A)
                 /\ NumericCell(nucl_info[i].MEJYFL)
NumericRows == { i \in 1..Len(nucl_info) : NumericRow(i) }
HasNonNumericCell == NumericRows # 1..Len(nucl_info)

\* the table position of the k-th numeric row
NthNumericRow(k) ==
    CHOOSE i \in NumericRows : Cardinality({ j \in NumericRows : j <= i }) = k

IsMassexcessLine(line) == line[1] = "massexcess"
MassexcessLines == SelectSeq(InputContent, IsMassexcessLine)

Matches == { i \in 1..Len(nucl_info) : ValidIndex /\ nucl_info[i].Ydin = Selected.Target }
NoMatch == ValidIndex /\ Matches = {}
FirstMatch == CHOOSE i \in Matches : \A j \in Matches : i <= j

IntegerCell(c) == c.t \in {"int", "float"} \/ (c.t = "str" /\ IsIntegerText(c.s))
\* the integer a cell stands for, -1 when it stands for none
IntegerOf(c) ==
    CASE c.t = "int" -> c.v
      [] c.t = "float" -> Truncate(c.v)
      [] c.t = "str" /\ IsIntegerText(c.s) -> IntegerTextValue(c.s)
      [] OTHER -> -1

TargetRowNotInteger ==
    /\ Matches # {}
    /\ ~(IntegerCell(nucl_info[FirstMatch].Z) /\ IntegerCell(nucl_info[FirstMatch].A))

FixedKeys == <<"energy", "projectile", "element", "mass", "ldmodel", "strength",
               "massmodel", "astro", "transeps", "xseps", "popeps", "gnorm",
               "outlevels", "outdensity", "outgamma", "expmass">>

SameEntry(f, g, p) == /\ (p \in DOMAIN f) = (p \in DOMAIN g)
                      /\ p \in DOMAIN f => f[p] = g[p]

(***************************************************************************)
(* C1.  The name make_dir() computes.                                      *)
(***************************************************************************)
\* C1 as stated: the name returned by make_dir is "Run-", the zero-padded
\* day, month and year, a hyphen, projectile then target, a hyphen, and the
\* three parameters.
C1_NameWithHyphen ==
    mkdir_result # None =>
        run_dir = "Run-" \o DDMMYY \o "-" \o projectile \o target \o "-" \o Parameters

\* C1 amended: the date is followed by an underscore, not a hyphen; the
\* rest of the format is as stated, and the name is a function of the date,
\* the projectile, the target and the three parameters.
C1_NameFormat ==
    mkdir_result # None =>
        run_dir = "Run-" \o DDMMYY \o "_" \o projectile \o target \o "-" \o Parameters

C1_Witness ==
    /\ pc = "make_input"
    /\ today.day < 10
    /\ today.month < 10
    /\ today.year % 100 < 10
    /\ args.ldmodel >= 10

(***************************************************************************)
(* C2.  The massexcess lines of a finished file.                           *)
(***************************************************************************)
\* C2: when make_input has finished writing, the massexcess lines are, in
\* table order, exactly one line for each nuclide row whose Z, A and MEJYFL
\* are all numeric, and no line for any other row.
C2_MassexcessLines ==
    pc = "done" =>
        /\ Len(MassexcessLines) = Cardinality(NumericRows)
        /\ \A k \in 1..Len(MassexcessLines) :
              LET row == nucl_info[NthNumericRow(k)]
              IN  MassexcessLines[k] =
                      <<"massexcess",
                        ToString(Truncate(to_numeric(row.Z).v)),
                        ToString(Truncate(to_numeric(row.A).v)),
                        format_3f(to_numeric(row.MEJYFL).v)>>

C2_Witness ==
    /\ pc = "done"
    /\ Len(nucl_info) = 2
    /\ ~NumericRow(1)
    /\ NumericRow(2)
    /\ Len(MassexcessLines) = 1

(***************************************************************************)
(* C3.  Exit status after the reports of make_dir().                       *)
(***************************************************************************)
TableErrors == {"KeyError", "IndexError", "ValueError", "OverflowError"}

\* C3 as stated: a run in which directory creation reported "already
\* exists" or "permission denied", and in which the tables raise nothing
\* (and, for "already exists", the directory accepts the file), runs to
\* completion with exit status 0.
C3_ExitZeroAfterReport ==
    /\ (Finished /\ mkdir_result = "exists"
          /\ err \notin TableErrors \cup {"PermissionError"}) => exit_code = <<0>>
    /\ (Finished /\ mkdir_result = "permission"
          /\ err \notin TableErrors) => exit_code = <<0>>

\* C3 amended: the exit status is 0 exactly when main returns and 1 exactly
\* when an exception is uncaught; neither report is raised out of make_dir;
\* after "already exists" a failure can only come from make_input; after
\* "permission denied" the run never exits 0, because make_input's open
\* raises.
C3_ExitStatus ==
    /\ (exit_code = <<0>>) = (pc = "done")
    /\ (exit_code = <<1>>) = (pc = "failed")
    /\ (pc = "failed") = (err # None)
    /\ mkdir_result \in {"exists", "permission"} => err_at # "make_dir"
    /\ (Finished /\ mkdir_result = "permission") =>
            /\ exit_code = <<1>>
            /\ err_at = "make_input"
            /\ err \notin TableErrors => err = "FileNotFoundError"

C3_Witness ==
    /\ pc = "failed"
    /\ mkdir_result = "permission"
    /\ err = "FileNotFoundError"
    /\ ~HasNonNumericCell

(***************************************************************************)
(* C4.  make_dir() always returns the name.                                *)
(***************************************************************************)
\* C4: whatever the creation attempt does (created, already exists,
\* permission denied, any other exception), make_dir raises nothing and
\* returns the computed name, and main proceeds to make_input with it.
C4_AlwaysReturnsName ==
    /\ err_at # "make_dir"
    /\ pc = "make_dir" => mkdir_result = None
    /\ mkdir_result # None =>
          /\ mkdir_result \in {"created", "exists", "permission", "error"}
          /\ pc \in {"make_input", "done", "failed"}
          /\ pc = "failed" => err_at = "make_input"
          /\ run_dir = "Run-" \o DDMMYY \o "_" \o Selected.Projectile
                         \o Selected.Target \o "-" \o Parameters

C4_Witness ==
    /\ pc = "make_input"
    /\ mkdir_result = "error"
    /\ RunDirPath \notin DOMAIN fs

(***************************************************************************)
(* C5.  No nuclide row matches the target.                                 *)
(***************************************************************************)
\* C5: when the target of the selected reaction matches no nuclide row,
\* make_input fails fatally and writes no input file: none is created, and
\* one left by an earlier run is unmodified.
C5_ZeroMatchWritesNothing ==
    /\ (pc = "done" => ~NoMatch)
    /\ (pc = "failed" /\ err_at = "make_input" /\ NoMatch) =>
          /\ err = "IndexError"
          /\ exit_code = <<1>>
          /\ open_mode = None
          /\ SameEntry(fs, fs0, InputPath)
    /\ err = "IndexError" => NoMatch

C5_Witness ==
    /\ err = "IndexError"
    /\ Len(nucl_info) > 0
    /\ InputPath \in DOMAIN fs0
    /\ fs[InputPath] = fs0[InputPath]

(***************************************************************************)
(* C6.  Non-numeric cells of the nuclide table.                            *)
(***************************************************************************)
\* C6 as stated: a non-numeric or missing Z, A or MEJYFL in any row of the
\* nuclide table never makes make_input raise: no conversion of a cell
\* fails.
C6_NeverFatal ==
    HasNonNumericCell => err # "ValueError"

\* C6 amended: a conversion error ends make_input exactly when the first
\* row matching the target has a Z or A that int() cannot convert; a
\* non-numeric or missing value anywhere else (another row, or the MEJYFL
\* of the target row) raises nothing, and when make_input completes the
\* rows holding such values are the ones without a massexcess line.
C6_FatalOnlyInTargetRow ==
    /\ (Finished /\ mkdir_result # None) =>
          ((err = "ValueError") = TargetRowNotInteger)
    /\ err = "ValueError" => (err_at = "make_input" /\ open_mode = None
                              /\ SameEntry(fs, fs0, InputPath))
    /\ pc = "done" =>
          Len(InputContent) = Len(FixedKeys) + Cardinality(NumericRows)

C6_Witness ==
    /\ pc = "done"
    /\ Len(nucl_info) = 2
    /\ FirstMatch = 1
    /\ ~NumericCell(nucl_info[1].MEJYFL)
    /\ ~NumericCell(nucl_info[2].Z)
    /\ Len(InputContent) = Len(FixedKeys)

(***************************************************************************)
(* C7.  Writing the input file twice.                                      *)
(***************************************************************************)
\* C7: an invocation that opens the input file after an earlier invocation
\* with the same inputs wrote it takes the overwrite path and leaves the
\* file exactly as the earlier one left it; the content of a completed
\* file holds no line of what the file held before and one line per fixed
\* key and per numeric row.
C7_Idempotent ==
    /\ (Finished /\ open_mode # None /\ last_output # <<>>) =>
          /\ open_mode = "w"
          /\ <<InputContent>> = last_output
    /\ pc = "done" =>
          /\ \A i \in 1..Len(InputContent) : InputContent[i][1] # "stale"
          /\ Len(InputContent) = Len(FixedKeys) + Len(MassexcessLines)
          /\ open_mode = (IF InputPath \in DOMAIN fs0 THEN "w" ELSE "x")

C7_Witness ==
    /\ pc = "done"
    /\ open_mode = "w"
    /\ last_output # <<>>
    /\ Len(MassexcessLines) > 0
    /\ fs = fs0

(***************************************************************************)
(* C8.  The selected index is not a row of the reaction table.             *)
(***************************************************************************)
\* C8 as stated: when the out-of-range lookup fails, the directory-creation
\* step has already run.
C8_DirectoryStepRanFirst ==
    err = "KeyError" => mkdir_result # None

\* C8 amended: when the selected index is not a row position of the
\* reaction table the run fails fatally with no input file written, and the
\* failing lookup is the one in main, before make_dir is called: the
\* directory-creation step has not run and nothing under the run root has
\* changed.
C8_FailsBeforeDirectory ==
    /\ (Finished /\ ~ValidIndex) =>
          /\ pc = "failed"
          /\ err = "KeyError"
          /\ err_at = "main"
          /\ exit_code = <<1>>
          /\ mkdir_result = None
          /\ open_mode = None
          /\ fs = fs0
    /\ err = "KeyError" => ~ValidIndex
    /\ (~ValidIndex) => pc \in {"main", "failed"}

C8_Witness ==
    /\ err = "KeyError"
    /\ reactions = <<>>
    /\ Len(nucl_info) > 0

(***************************************************************************)
(* C9.  The fixed lines of a finished file.                                *)
(***************************************************************************)
\* C9: a finished input file starts with the sixteen fixed keys in order,
\* one per line, every later line is a massexcess line, and the element and
\* mass lines carry Z and A of the first nuclide row whose symbol is the
\* target of the selected reaction.
C9_FixedLines ==
    pc = "done" =>
        /\ Len(InputContent) >= Len(FixedKeys)
        /\ \A i \in 1..Len(InputContent) :
              InputContent[i][1] = (IF i <= Len(FixedKeys) THEN FixedKeys[i]
                                    ELSE "massexcess")
        /\ \A i \in 1..Len(FixedKeys) : Len(InputContent[i]) = 2
        /\ InputContent[2][2] = Selected.Projectile
        /\ InputContent[3][2] = ToString(IntegerOf(nucl_info[FirstMatch].Z))
        /\ InputContent[4][2] = ToString(IntegerOf(nucl_info[FirstMatch].A))
        /\ InputContent[5][2] = ToString(args.ldmodel)
        /\ InputContent[6][2] = ToString(args.strength)
        /\ InputContent[7][2] = ToString(args.massmodel)

C9_Witness ==
    /\ pc = "done"
    /\ Cardinality(Matches) = 2
    /\ nucl_info[1].Z # nucl_info[2].Z
    /\ nucl_info[1].A # nucl_info[2].A
    /\ Len(InputContent) > Len(FixedKeys)

(***************************************************************************)
(* C10.  What a run changes under the run root.                            *)
(***************************************************************************)
\* C10: when the run directory already exists make_dir changes nothing and
\* the run continues into it; over a whole run every entry under the run
\* root other than the run directory and its input file is neither created,
\* removed nor modified.
C10_Frame ==
    /\ mkdir_result = None => fs = fs0
    /\ mkdir_result # None =>
          \A p \in (DOMAIN fs \cup DOMAIN fs0) \ {RunDirPath, InputPath} :
              /\ p \in DOMAIN fs
              /\ p \in DOMAIN fs0
              /\ fs[p] = fs0[p]
    /\ mkdir_result = "exists" =>
          /\ RunDirPath \in DOMAIN fs0
          /\ fs[RunDirPath] = fs0[RunDirPath]
          /\ pc \in {"make_input", "done", "failed"}
          /\ pc = "make_input" => fs = fs0
    /\ mkdir_result \in {"permission", "error"} => fs = fs0

C10_Witness ==
    /\ pc = "done"
    /\ mkdir_result = "exists"
    /\ (run_dir \o "/output") \in DOMAIN fs
    /\ InputPath \in DOMAIN fs0
    /\ fs[InputPath] # fs0[InputPath]

====
